---- MODULE Spec2Model ----
(***************************************************************************)
(* A model of the hierarchical logger of src/logger.cpp: the tree of       *)
(* Logger nodes, the weak sink subscriptions held by every node, the       *)
(* broadcast of a record to a node's sinks, and the filter chain a sink    *)
(* owns.                                                                    *)
(*                                                                          *)
(* Strings are sequences of one-character strings.  A Logger* is the index *)
(* of the node in `loggers` (a std::map node never moves, so a pointer to   *)
(* a child stays valid); 0 is nullptr.  A std::weak_ptr<Sink> is the        *)
(* identity of its control block, a member of Sinks, or Empty for a        *)
(* weak_ptr that owns nothing (a moved-from one).                           *)
(***************************************************************************)
EXTENDS Integers, Sequences, FiniteSets, TLC

VARIABLES
    loggers,   \* the Logger objects, root_logger first
    held,      \* held[s]: an external shared_ptr still owns sink s
    alive,     \* alive[s]: the Sink object s has not been destroyed
    filters,   \* filters[s]: Filterer::filters of sink s
    fault,     \* the program has run into undefined behaviour
    last,      \* observation: the last call, its arguments and its results
    pre,       \* observation: `loggers` as it was when the last call started
    run        \* the publish_log that is under way, step by step

vars == <<loggers, held, alive, filters, fault, last, pre, run>>

----------------------------------------------------------------------------
(* Bounds of the model: the longest path string, the number of Logger     *)
(* objects (root_logger included), the length of a node's sinks and of a  *)
(* sink's filter chain, and the sets the calls draw their arguments from. *)

MaxPathLen == 2
MaxLoggers == 3
MaxSinksLen == 2
MaxFilters == 3
MaxOrderLen == 4

Chars == {"a", "/"}
Sinks == {1, 2, 3}
Filters == {1, 2}
Messages == {<<"m">>}
Times == {0}

Paths == UNION {[1..n -> Chars] : n \in 0..MaxPathLen}

----------------------------------------------------------------------------
(* Values *)

Null == 0
Empty == 0
Npos == -1
Root == 1

Levels == <<"ANY", "DEBUG", "INFO", "WARNING", "ERROR", "CRITICAL">>

LevelNum(level) == CHOOSE i \in 1..Len(Levels) : Levels[i] = level

LogLevels == {"DEBUG", "INFO", "WARNING", "ERROR", "CRITICAL"}

\* the levels the loggers of the tree emit at
EmittedLevels == {"INFO", "ERROR"}

SinkKind(s) ==
    CASE s = 1 -> "PrintSink"
      [] s = 2 -> "ZMQPubSink"
      [] OTHER -> "FileSink"

\* the sinks the program subscribes to loggers
Subscribers == {1, 2}

Log(source, time, level, message) ==
    [source |-> source, time |-> time, level |-> level, message |-> message]

\* root_logger is defined in logger.hpp: its name is empty, and a Logger is
\* constructed with propagate = true unless told otherwise
RootName == << >>

DefaultPropagate == TRUE

Logger(parent, name, propagate) ==
    [parent |-> parent, name |-> name, propagate |-> propagate,
     children |-> << >>, sinks |-> << >>]

----------------------------------------------------------------------------
(* std::string operations, with positions counted from 0 as in the code *)

\* string::find(ch): the position of the first ch, or npos.  The code keeps
\* the result in an int: npos becomes -1, and -1 widens back to npos where
\* the int is used as a size_t, so Npos stands for both.
Find(str, ch) ==
    IF \E i \in 1..Len(str) : str[i] = ch
    THEN (CHOOSE i \in 1..Len(str) :
              str[i] = ch /\ \A j \in 1..(i - 1) : str[j] # ch) - 1
    ELSE Npos

\* string::substr(pos, n), for pos <= size()
SubStr(str, pos, n) ==
    LET count == IF n = Npos \/ pos + n > Len(str) THEN Len(str) - pos ELSE n
    IN  SubSeq(str, pos + 1, pos + count)

\* string::erase(pos, n), for pos <= size()
StrErase(str, pos, n) ==
    LET count == IF n = Npos \/ pos + n > Len(str) THEN Len(str) - pos ELSE n
    IN  SubSeq(str, 1, pos) \o SubSeq(str, pos + count + 1, Len(str))

----------------------------------------------------------------------------
(* Logger::ensure_child and Logger::get *)

\* ensure_child without the look-up: the child is made anew on every call
\* and takes the place of the one the map held
EnsureChildAlways(L, this, logger_name) ==
    LET child == Logger(this, L[this].name \o <<"/">> \o logger_name,
                        DefaultPropagate)
        id == Len(L) + 1
    IN  Append([L EXCEPT ![this].children = (logger_name :> id) @@ @], child)

\* ensure_child naming the child by its segment alone
EnsureChildBareName(L, this, logger_name) ==
    IF logger_name \notin DOMAIN L[this].children
    THEN LET child == Logger(this, logger_name, DefaultPropagate)
             id == Len(L) + 1
         IN  Append([L EXCEPT ![this].children = @ @@ (logger_name :> id)],
                    child)
    ELSE L

\* ensure_child handing the parent's sinks down to the new child
EnsureChildInherit(L, this, logger_name) ==
    IF logger_name \notin DOMAIN L[this].children
    THEN LET child == [Logger(this, L[this].name \o <<"/">> \o logger_name,
                              DefaultPropagate)
                          EXCEPT !.sinks = L[this].sinks]
             id == Len(L) + 1
         IN  Append([L EXCEPT ![this].children = @ @@ (logger_name :> id)],
                    child)
    ELSE L

\* ensure_child refusing an empty segment
EnsureChildNonEmpty(L, this, logger_name) ==
    IF logger_name # << >> /\ logger_name \notin DOMAIN L[this].children
    THEN LET child == Logger(this, L[this].name \o <<"/">> \o logger_name,
                             DefaultPropagate)
             id == Len(L) + 1
         IN  Append([L EXCEPT ![this].children = @ @@ (logger_name :> id)],
                    child)
    ELSE L

\* ensure_child letting the new child take the place of its siblings
EnsureChildEvict(L, this, logger_name) ==
    IF logger_name \notin DOMAIN L[this].children
    THEN LET child == Logger(this, L[this].name \o <<"/">> \o logger_name,
                             DefaultPropagate)
             id == Len(L) + 1
         IN  Append([L EXCEPT ![this].children = (logger_name :> id)], child)
    ELSE L

EnsureChild(L, this, logger_name) ==
    IF logger_name \notin DOMAIN L[this].children
    THEN LET child == Logger(this, L[this].name \o <<"/">> \o logger_name,
                             DefaultPropagate)
             id == Len(L) + 1
         IN  Append([L EXCEPT ![this].children = @ @@ (logger_name :> id)],
                    child)
    ELSE L

RECURSIVE LoggerGet(_, _, _)
LoggerGet(L, this, logger_name) ==
    LET delim_index == Find(logger_name, "/")
        head == SubStr(logger_name, 0, delim_index)
        L1 == EnsureChild(L, this, head)
        found == head \in DOMAIN L1[this].children
    IN  IF delim_index = Npos
        THEN [loggers |-> L1,
              ret |-> IF found THEN L1[this].children[head] ELSE Null]
        ELSE LET tail == StrErase(logger_name, 0, delim_index + 1)
             IN  IF found
                 THEN LoggerGet(L1, L1[this].children[head], tail)
                 ELSE [loggers |-> L1, ret |-> Null]

\* the free function get(logger_name)
GetLogger(L, logger_name) == LoggerGet(L, Root, logger_name)

----------------------------------------------------------------------------
(* The nodes below a node *)

ChildIds(L, n) == {L[n].children[k] : k \in DOMAIN L[n].children}

RECURSIVE Subtree(_, _)
Subtree(L, n) == {n} \cup UNION {Subtree(L, c) : c \in ChildIds(L, n)}

----------------------------------------------------------------------------
(* std::weak_ptr<Sink> *)

\* weak_ptr::owner_before: the order of the control blocks
OwnerBefore(t, u) == t < u

\* equals(t, u): neither owner orders before the other
Equals(t, u) == ~(OwnerBefore(t, u) \/ OwnerBefore(u, t))

\* a lock that hands out the sink without looking whether it is alive
LockUnchecked(w, alv) == w

\* weak_ptr::lock(): the sink while it is alive, else a null shared_ptr
Lock(w, alv) == IF w # Empty /\ alv[w] THEN w ELSE Null

\* the strong references the tree holds on sink s: the nodes keep
\* std::weak_ptr<Sink>, which own nothing
TreeOwners(L, s) == 0

----------------------------------------------------------------------------
(* std::vector operations.  Positions are 1..Len(v); Len(v) + 1 is end(). *)

VecEnd(v) == Len(v) + 1

\* vector::erase(pos) for a position that holds an element
EraseAt(v, pos) == SubSeq(v, 1, pos - 1) \o SubSeq(v, pos + 1, Len(v))

\* What a build makes of vector::erase(end()), which is undefined: a
\* checked build stops the program; an unchecked one moves nothing, steps
\* the end pointer back and destroys the element there, which drops the
\* last element of a vector that has one and corrupts an empty vector.
UBOutcomes == {"abort", "unchecked"}

\* vector::erase(pos), end() included
Erase(v, pos, ub) ==
    IF pos # VecEnd(v)
    THEN [vec |-> EraseAt(v, pos), fault |-> FALSE]
    ELSE IF ub = "unchecked" /\ Len(v) > 0
         THEN [vec |-> SubSeq(v, 1, Len(v) - 1), fault |-> FALSE]
         ELSE [vec |-> v, fault |-> TRUE]

\* std::find_if over the elements' predicate values m: the first position
\* whose element satisfies the predicate, or end()
FindIf(m) ==
    IF \E i \in 1..Len(m) : m[i]
    THEN CHOOSE i \in 1..Len(m) : m[i] /\ \A j \in 1..(i - 1) : ~m[j]
    ELSE VecEnd(m)

\* The loop of std::remove_if: every element that is kept is move-assigned
\* down to `result`; moving from a weak_ptr or a shared_ptr leaves it empty.
RECURSIVE RemoveLoop(_, _, _, _)
RemoveLoop(v, m, first, result) ==
    IF first > Len(v)
    THEN [vec |-> v, ret |-> result]
    ELSE IF ~m[first]
         THEN RemoveLoop([v EXCEPT ![result] = v[first], ![first] = Empty],
                         m, first + 1, result + 1)
         ELSE RemoveLoop(v, m, first + 1, result)

\* std::remove_if(begin, end, pred), m[i] being pred(v[i]): the vector as
\* it is left, and the iterator returned
RemoveIf(v, m) ==
    LET first == FindIf(m)
    IN  IF first = VecEnd(v)
        THEN [vec |-> v, ret |-> first]
        ELSE RemoveLoop(v, m, first + 1, first)

----------------------------------------------------------------------------
(* Filterer *)

\* Filter::filter of the filter objects (the Filter classes are those of
\* logger.hpp): a filter accepts the records at or above its level
Threshold(f) == IF f = 1 THEN "WARNING" ELSE "CRITICAL"

FilterAccepts(f, log) == LevelNum(log.level) >= LevelNum(Threshold(f))

\* Filterer::filter reaches an empty shared_ptr<Filter> (one remove_filter
\* moved from and left in the chain) and calls filter through it, which is
\* undefined: every filter before it has accepted the record
FiltererFaults(fs, log) ==
    \E i \in 1..Len(fs) :
        /\ fs[i] = Empty
        /\ \A j \in 1..(i - 1) : fs[j] # Empty /\ FilterAccepts(fs[j], log)

\* Filterer::filter, where it does not run into an empty pointer
RECURSIVE FiltererFilter(_, _)
FiltererFilter(fs, log) ==
    IF fs = << >> THEN TRUE
    ELSE IF Head(fs) = Empty \/ ~FilterAccepts(Head(fs), log) THEN FALSE
         ELSE FiltererFilter(Tail(fs), log)

\* Filterer::add_filter
AddFilterTo(fs, f) == Append(fs, f)

\* Filterer::remove_filter: erase(std::remove(begin, end, filter))
RemoveFilterFrom(fs, f, ub) ==
    LET r == RemoveIf(fs, [i \in 1..Len(fs) |-> fs[i] = f])
    IN  Erase(r.vec, r.ret, ub)

----------------------------------------------------------------------------
(* The sinks' handle *)

\* log.source.substr(1) throws std::out_of_range on an empty source
SubStr1Throws(log) == Len(log.source) < 1

\* What the sink writes of a record: the record, whether the writing got
\* to its end (`complete` is FALSE for the part written before substr(1)
\* threw), and the source as it is written
Written(s, log, complete, shown) ==
    [sink |-> s, log |-> log, complete |-> complete, shown |-> shown]

\* the source between the parentheses of the text line: log.source.substr(1)
ShownSource(log) ==
    IF SubStr1Throws(log) THEN << >> ELSE SubStr(log.source, 1, Npos)

\* a FileSink::handle that writes the source as it is
FileSinkHandleWhole(s, log, fs) ==
    [out |-> <<Written(s, log, TRUE, log.source)>>,
     threw |-> FALSE, fault |-> FALSE]

PrintSinkHandle(s, log, fs) ==
    IF FiltererFaults(fs, log)
    THEN [out |-> << >>, threw |-> FALSE, fault |-> TRUE]
    ELSE IF ~FiltererFilter(fs, log)
         THEN [out |-> << >>, threw |-> FALSE, fault |-> FALSE]
         ELSE [out |-> <<Written(s, log, ~SubStr1Throws(log),
                                 ShownSource(log))>>,
               threw |-> SubStr1Throws(log), fault |-> FALSE]

FileSinkHandle(s, log, fs) ==
    [out |-> <<Written(s, log, ~SubStr1Throws(log), ShownSource(log))>>,
     threw |-> SubStr1Throws(log), fault |-> FALSE]

\* the record goes out as JSON, its source whole
ZMQPubSinkHandle(s, log, fs) ==
    [out |-> <<Written(s, log, TRUE, log.source)>>,
     threw |-> FALSE, fault |-> FALSE]

\* the virtual call sink_ptr->handle(log)
Handle(s, log, flt) ==
    CASE SinkKind(s) = "PrintSink" -> PrintSinkHandle(s, log, flt[s])
      [] SinkKind(s) = "FileSink" -> FileSinkHandle(s, log, flt[s])
      [] OTHER -> ZMQPubSinkHandle(s, log, flt[s])

----------------------------------------------------------------------------
(* Logger::publish_log, Logger::attach_sink, Logger::deattach_sink *)

\* The loop of publish_log from position iter on.  An exception of handle
\* leaves the loop and the function; so does undefined behaviour in it.
RECURSIVE PublishLoop(_, _, _, _, _, _, _)
PublishLoop(v, iter, log, alv, flt, handled, written) ==
    IF iter = VecEnd(v)
    THEN [sinks |-> v, handled |-> handled, written |-> written,
          threw |-> FALSE, fault |-> FALSE]
    ELSE LET sink_ptr == Lock(v[iter], alv)
         IN  IF sink_ptr # Null
             THEN LET h == Handle(sink_ptr, log, flt)
                  IN  IF h.threw \/ h.fault
                      THEN [sinks |-> v,
                            handled |-> Append(handled, sink_ptr),
                            written |-> written \o h.out,
                            threw |-> h.threw, fault |-> h.fault]
                      ELSE PublishLoop(v, iter + 1, log, alv, flt,
                                       Append(handled, sink_ptr),
                                       written \o h.out)
             ELSE PublishLoop(EraseAt(v, iter), iter, log, alv, flt,
                              handled, written)

\* a publish_log that, on a node that propagates, goes on to the sinks of
\* the parent
RECURSIVE PublishLogPropagating(_, _, _, _, _)
PublishLogPropagating(L, this, log, alv, flt) ==
    LET own == PublishLoop(L[this].sinks, 1, log, alv, flt, << >>, << >>)
    IN  IF own.threw \/ own.fault \/ ~L[this].propagate
           \/ L[this].parent = Null
        THEN own
        ELSE LET up == PublishLogPropagating(L, L[this].parent, log, alv, flt)
             IN  [sinks |-> own.sinks,
                  handled |-> own.handled \o up.handled,
                  written |-> own.written \o up.written,
                  threw |-> up.threw, fault |-> up.fault]

\* a publish_log that forgets every sink it has gone through, the live
\* ones too
PublishLogClearing(L, this, log, alv, flt) ==
    [PublishLoop(L[this].sinks, 1, log, alv, flt, << >>, << >>)
        EXCEPT !.sinks = << >>]

\* Logger::publish_log on node `this`: the node's sinks as they are left,
\* the sinks whose handle was called, in order, and what they wrote
PublishLog(L, this, log, alv, flt) ==
    PublishLoop(L[this].sinks, 1, log, alv, flt, << >>, << >>)

\* The children are visited in the order of the map; the subtrees are
\* disjoint, so the order does not show in the result.
RECURSIVE AttachSink(_, _, _)
RECURSIVE AttachChildren(_, _, _)
AttachChildren(L, todo, sink) ==
    IF todo = {} THEN L
    ELSE LET child == CHOOSE c \in todo : TRUE
         IN  AttachChildren(AttachSink(L, child, sink), todo \ {child}, sink)

AttachSink(L, this, sink) ==
    AttachChildren([L EXCEPT ![this].sinks = Append(@, sink)],
                   ChildIds(L, this), sink)

RECURSIVE DeattachSink(_, _, _, _)
RECURSIVE DeattachChildren(_, _, _, _)
DeattachChildren(L, todo, sink, ub) ==
    IF todo = {} THEN [loggers |-> L, fault |-> FALSE]
    ELSE LET child == CHOOSE c \in todo : TRUE
             r == DeattachSink(L, child, sink, ub)
         IN  IF r.fault THEN r
             ELSE DeattachChildren(r.loggers, todo \ {child}, sink, ub)

DeattachSink(L, this, sink, ub) ==
    LET v == L[this].sinks
        r == RemoveIf(v, [i \in 1..Len(v) |-> Equals(sink, v[i])])
        e == Erase(r.vec, r.ret, ub)
    IN  IF e.fault
        THEN [loggers |-> L, fault |-> TRUE]
        ELSE DeattachChildren([L EXCEPT ![this].sinks = e.vec],
                              ChildIds(L, this), sink, ub)

----------------------------------------------------------------------------
(* The state after construction and the calls a program can make *)

NoLog == Log(<< >>, 0, "ANY", << >>)

\* The record of a call: its arguments (sink, node, path, filter, log),
\* the Logger* it returned (ret), the bool it returned (accepted), the
\* sinks whose handle ran (handled), what they wrote (written), whether an
\* exception left the call (threw), and the filter chain of the sink as it
\* was before the call (chain).
Call(op, sink, node, path) ==
    [op |-> op, sink |-> sink, node |-> node, path |-> path, log |-> NoLog,
     filter |-> Null, chain |-> << >>,
     ret |-> Null, accepted |-> FALSE,
     handled |-> << >>, written |-> << >>, threw |-> FALSE]

Nodes == 1..Len(loggers)

\* No publish_log is under way.  While one is: the node, the position of
\* iter, the sink sink_ptr owns (Null outside the if), the record; and, as
\* observations, the sinks whose handle was entered, whether an exception
\* ended the loop, and the releases made by handle bodies, each with the
\* position of iter and the number of handles entered when it was made.
Idle ==
    [active |-> FALSE, node |-> Null, iter |-> 0, sink_ptr |-> Null,
     log |-> NoLog, handled |-> << >>, threw |-> FALSE, events |-> {}]

Init ==
    /\ loggers = <<Logger(Null, RootName, DefaultPropagate)>>
    /\ held = [s \in Sinks |-> TRUE]
    /\ alive = [s \in Sinks |-> TRUE]
    /\ filters = [s \in Sinks |-> << >>]
    /\ fault = FALSE
    /\ last = Call("init", Null, Null, << >>)
    /\ pre = loggers
    /\ run = Idle

\* get(logger_name)
Get(logger_name) ==
    LET r == GetLogger(loggers, logger_name)
    IN  /\ ~fault
        /\ Len(r.loggers) <= MaxLoggers
        /\ loggers' = r.loggers
        /\ last' = [Call("get", Null, Null, logger_name) EXCEPT !.ret = r.ret]
        /\ pre' = loggers
        /\ UNCHANGED <<held, alive, filters, fault, run>>

\* no node below n holds max entries yet
RoomFor(L, n, max) == \A m \in Subtree(L, n) : Len(L[m].sinks) < max

Room(L, n) == RoomFor(L, n, MaxSinksLen)

\* Sink::subscribe(Logger *logger), called on a sink that is alive, while
\* the nodes it reaches hold fewer than max entries
SubscribeUpTo(s, n, max) ==
    /\ ~fault
    /\ alive[s]
    /\ RoomFor(loggers, n, max)
    /\ loggers' = AttachSink(loggers, n, s)
    /\ last' = Call("subscribe", s, n, << >>)
    /\ pre' = loggers
    /\ UNCHANGED <<held, alive, filters, fault, run>>

Subscribe(s, n) == SubscribeUpTo(s, n, MaxSinksLen)

\* Sink::subscribe(string logger)
SubscribePath(s, logger_name) ==
    LET r == GetLogger(loggers, logger_name)
    IN  /\ ~fault
        /\ alive[s]
        /\ Len(r.loggers) <= MaxLoggers
        /\ Room(r.loggers, r.ret)
        /\ loggers' = AttachSink(r.loggers, r.ret, s)
        /\ last' = Call("subscribe", s, r.ret, logger_name)
        /\ pre' = loggers
        /\ UNCHANGED <<held, alive, filters, fault, run>>

\* Sink::unsubscribe(Logger *logger).  The reference unsubscribed may be
\* that of a sink whose last owner is gone: weak_from_this() in the sink's
\* destructor gives the expired reference.
Unsubscribe(s, n, ub) ==
    LET r == DeattachSink(loggers, n, s, ub)
    IN  /\ ~fault
        /\ loggers' = r.loggers
        /\ fault' = r.fault
        /\ last' = Call("unsubscribe", s, n, << >>)
        /\ pre' = loggers
        /\ UNCHANGED <<held, alive, filters, run>>

\* Sink::unsubscribe(string logger)
UnsubscribePath(s, logger_name, ub) ==
    LET g == GetLogger(loggers, logger_name)
        r == DeattachSink(g.loggers, g.ret, s, ub)
    IN  /\ ~fault
        /\ Len(g.loggers) <= MaxLoggers
        /\ loggers' = r.loggers
        /\ fault' = r.fault
        /\ last' = Call("unsubscribe", s, g.ret, logger_name)
        /\ pre' = loggers
        /\ UNCHANGED <<held, alive, filters, run>>

\* Logger::debug, info, warning, error, critical
Publish(n, level, message, time) ==
    LET log == Log(loggers[n].name, time, level, message)
        r == PublishLog(loggers, n, log, alive, filters)
    IN  /\ ~fault
        /\ loggers' = [loggers EXCEPT ![n].sinks = r.sinks]
        /\ last' = [Call("publish", Null, n, << >>) EXCEPT
                        !.log = log, !.handled = r.handled,
                        !.written = r.written, !.threw = r.threw]
        /\ pre' = loggers
        /\ fault' = r.fault
        /\ UNCHANGED <<held, alive, filters, run>>

\* the external owners of sink s let go of it
Release(s) ==
    /\ ~fault
    /\ held[s]
    /\ held' = [held EXCEPT ![s] = FALSE]
    /\ alive' = [alive EXCEPT ![s] = TreeOwners(loggers, s) > 0]
    /\ last' = Call("release", s, Null, << >>)
    /\ pre' = loggers
    /\ UNCHANGED <<loggers, filters, fault, run>>

Next ==
    \/ \E p \in Paths : Get(p)
    \/ \E s \in Subscribers, n \in Nodes : Subscribe(s, n)
    \/ \E s \in Subscribers, p \in Paths : SubscribePath(s, p)
    \/ \E s \in Subscribers, n \in Nodes, ub \in UBOutcomes :
           Unsubscribe(s, n, ub)
    \/ \E s \in Subscribers, p \in Paths, ub \in UBOutcomes :
           UnsubscribePath(s, p, ub)
    \/ \E n \in Nodes, level \in EmittedLevels, m \in Messages, t \in Times :
           Publish(n, level, m, t)
    \/ \E s \in Subscribers : Release(s)

Spec == Init /\ [][Next]_vars

----------------------------------------------------------------------------
(* The calls on one sink: its filter chain and its handle *)

Sources == {RootName, <<"/", "a">>}

\* the sinks the program gives filters to
Filterers == {1, 3}

\* Filterer::add_filter
AddFilter(s, f) ==
    /\ ~fault
    /\ Len(filters[s]) < MaxFilters
    /\ filters' = [filters EXCEPT ![s] = AddFilterTo(@, f)]
    /\ last' = [Call("add_filter", s, Null, << >>) EXCEPT
                    !.filter = f, !.chain = filters[s]]
    /\ pre' = loggers
    /\ UNCHANGED <<loggers, held, alive, fault, run>>

\* Filterer::remove_filter
RemoveFilter(s, f, ub) ==
    LET r == RemoveFilterFrom(filters[s], f, ub)
    IN  /\ ~fault
        /\ filters' = [filters EXCEPT ![s] = r.vec]
        /\ fault' = r.fault
        /\ last' = [Call("remove_filter", s, Null, << >>) EXCEPT
                        !.filter = f, !.chain = filters[s]]
        /\ pre' = loggers
        /\ UNCHANGED <<loggers, held, alive, run>>

\* Sink::handle called with a record
HandleRecord(s, log) ==
    LET h == Handle(s, log, filters)
    IN  /\ ~fault
        /\ alive[s]
        /\ last' = [Call("handle", s, Null, << >>) EXCEPT
                        !.log = log, !.chain = filters[s],
                        !.handled = <<s>>, !.written = h.out,
                        !.threw = h.threw]
        /\ pre' = loggers
        /\ fault' = h.fault
        /\ UNCHANGED <<loggers, held, alive, filters, run>>

\* Filterer::filter called on the sink with a record; an empty pointer in
\* the chain makes the call undefined
Filter(s, log) ==
    /\ ~fault
    /\ alive[s]
    /\ last' = [Call("filter", s, Null, << >>) EXCEPT
                    !.log = log, !.chain = filters[s],
                    !.accepted = FiltererFilter(filters[s], log)]
    /\ pre' = loggers
    /\ fault' = FiltererFaults(filters[s], log)
    /\ UNCHANGED <<loggers, held, alive, filters, run>>

NextSink ==
    \/ \E s \in Filterers, f \in Filters : AddFilter(s, f)
    \/ \E s \in Filterers, f \in Filters, ub \in UBOutcomes : RemoveFilter(s, f, ub)
    \/ \E s \in Sinks, src \in Sources, level \in LogLevels,
          m \in Messages, t \in Times :
           HandleRecord(s, Log(src, t, level, m))
    \/ \E s \in Filterers, src \in Sources, level \in LogLevels,
          m \in Messages, t \in Times :
           Filter(s, Log(src, t, level, m))

SpecSink == Init /\ [][NextSink]_vars

----------------------------------------------------------------------------
(* The loggers with the sinks that write a record as a line of text *)

TextSinks == {1, 3}

\* the paths resolved here: those of Paths and a path of two segments that
\* are not empty
TextPaths == Paths \cup {<<"a", "/", "a">>}

NextText ==
    \/ \E p \in TextPaths : Get(p)
    \/ \E s \in TextSinks, p \in TextPaths : SubscribePath(s, p)
    \/ \E n \in Nodes, level \in LogLevels, m \in Messages, t \in Times :
           Publish(n, level, m, t)

SpecText == Init /\ [][NextText]_vars

----------------------------------------------------------------------------
(* One logger below the root and sinks subscribed to it many times over *)

OrderPaths == {<<"a">>}

NextOrder ==
    \/ \E p \in OrderPaths : Get(p)
    \/ \E s \in Subscribers, n \in Nodes \ {Root} :
           SubscribeUpTo(s, n, MaxOrderLen)
    \/ \E s \in Subscribers, n \in Nodes \ {Root}, ub \in UBOutcomes :
           Unsubscribe(s, n, ub)
    \/ \E n \in Nodes \ {Root}, level \in EmittedLevels, m \in Messages,
          t \in Times :
           Publish(n, level, m, t)
    \/ \E s \in Subscribers : Release(s)

SpecOrder == Init /\ [][NextOrder]_vars

----------------------------------------------------------------------------
(* publish_log step by step, with sinks whose handle lets go of owners.   *)
(* Sink::handle is virtual: the body of a sink of the program may release *)
(* the shared_ptr that owns the sink itself or another sink.              *)

\* a publish_log that keeps a plain pointer to the sink, which owns nothing
LockOwnersNone(sink_ptr, s) == 0

\* the strong references publish_log holds on sink s while sink_ptr is in
\* scope: the shared_ptr that lock() returned
LockOwners(sink_ptr, s) == IF sink_ptr = s THEN 1 ELSE 0

\* the sink object s exists while something owns it
Owned(s, hld, sink_ptr) ==
    hld[s] \/ TreeOwners(loggers, s) + LockOwners(sink_ptr, s) > 0

\* Logger::info and the others enter publish_log: iter = sinks.begin()
PublishBegin(n, level, message, time) ==
    /\ ~fault
    /\ ~run.active
    /\ run' = [Idle EXCEPT !.active = TRUE, !.node = n, !.iter = 1,
                           !.log = Log(loggers[n].name, time, level, message)]
    /\ pre' = loggers
    /\ UNCHANGED <<loggers, held, alive, filters, fault, last>>

\* the head of the loop body: sink_ptr = (*iter).lock(); a null sink_ptr
\* takes the else branch, iter = sinks.erase(iter)
PublishLock ==
    /\ run.active
    /\ run.sink_ptr = Null
    /\ run.iter # VecEnd(loggers[run.node].sinks)
    /\ LET sink_ptr == Lock(loggers[run.node].sinks[run.iter], alive)
       IN  IF sink_ptr # Null
           THEN /\ run' = [run EXCEPT !.sink_ptr = sink_ptr,
                                      !.handled = Append(@, sink_ptr)]
                /\ UNCHANGED loggers
           ELSE /\ loggers' = [loggers EXCEPT ![run.node].sinks =
                                   EraseAt(@, run.iter)]
                /\ UNCHANGED run
    /\ UNCHANGED <<held, alive, filters, fault, last, pre>>

\* inside sink_ptr->handle(log): the body releases the external owner of
\* sink s; s is destroyed at once unless sink_ptr owns it
HandleRelease(s) ==
    /\ run.active
    /\ run.sink_ptr # Null
    /\ held[s]
    /\ held' = [held EXCEPT ![s] = FALSE]
    /\ alive' = [alive EXCEPT ![s] = Owned(s, held', run.sink_ptr)]
    /\ run' = [run EXCEPT !.events = @ \cup
                  {[sink |-> s, pos |-> run.iter, calls |-> Len(run.handled)]}]
    /\ UNCHANGED <<loggers, filters, fault, last, pre>>

\* sink_ptr->handle(log) writes the record and returns, ++iter, and
\* sink_ptr goes out of scope; an exception of handle leaves publish_log,
\* and sink_ptr goes out of scope as well
HandleReturn ==
    /\ run.active
    /\ run.sink_ptr # Null
    /\ LET h == Handle(run.sink_ptr, run.log, filters)
       IN  /\ run' = IF h.threw \/ h.fault
                     THEN [run EXCEPT !.active = FALSE, !.sink_ptr = Null,
                                      !.threw = h.threw]
                     ELSE [run EXCEPT !.iter = @ + 1, !.sink_ptr = Null]
           /\ fault' = h.fault
           /\ last' = IF h.threw \/ h.fault
                      THEN [Call("publish", Null, run.node, << >>) EXCEPT
                                !.log = run.log, !.handled = run.handled,
                                !.threw = h.threw]
                      ELSE last
    /\ alive' = [alive EXCEPT ![run.sink_ptr] = Owned(run.sink_ptr, held, Null)]
    /\ UNCHANGED <<loggers, held, filters, pre>>

\* iter == sinks.end(): publish_log returns
PublishEnd ==
    /\ run.active
    /\ run.sink_ptr = Null
    /\ run.iter = VecEnd(loggers[run.node].sinks)
    /\ run' = [run EXCEPT !.active = FALSE]
    /\ last' = [Call("publish", Null, run.node, << >>) EXCEPT
                    !.log = run.log, !.handled = run.handled]
    /\ UNCHANGED <<loggers, held, alive, filters, fault, pre>>

NextHandle ==
    \/ ~run.active /\ \E p \in OrderPaths : Get(p)
    \/ ~run.active /\ \E s \in Subscribers, n \in Nodes : Subscribe(s, n)
    \/ ~run.active /\ \E s \in Subscribers : Release(s)
    \/ \E n \in Nodes, level \in EmittedLevels, m \in Messages, t \in Times :
           PublishBegin(n, level, m, t)
    \/ PublishLock
    \/ \E s \in Subscribers : HandleRelease(s)
    \/ HandleReturn
    \/ PublishEnd

SpecHandle == Init /\ [][NextHandle]_vars

----------------------------------------------------------------------------
(* Notions the properties are stated with *)

Entries(v) == {v[i] : i \in 1..Len(v)}

Count(v, x) == Cardinality({i \in 1..Len(v) : v[i] = x})

IsLive(w) == w \in Sinks /\ alive[w]

LiveOnly(v) == SelectSeq(v, IsLive)

\* the sinks of node n when the last call reached attach_sink or
\* deattach_sink: a node the call's own get created starts without sinks
Base(n) == IF n <= Len(pre) THEN pre[n].sinks ELSE << >>

\* the segments s1, ..., sn of the path s1/s2/.../sn
RECURSIVE Split(_)
Split(p) ==
    IF \A i \in 1..Len(p) : p[i] # "/" THEN <<p>>
    ELSE LET i == CHOOSE k \in 1..Len(p) :
                      p[k] = "/" /\ \A j \in 1..(k - 1) : p[j] # "/"
         IN  <<SubSeq(p, 1, i - 1)>> \o Split(SubSeq(p, i + 1, Len(p)))

\* the node reached from node n along the segments, Null when one is missing
RECURSIVE NodeAt(_, _, _)
NodeAt(L, n, segs) ==
    IF segs = << >> THEN n
    ELSE IF Head(segs) \in DOMAIN L[n].children
         THEN NodeAt(L, L[n].children[Head(segs)], Tail(segs))
         ELSE Null

Prefixes(segs) == {SubSeq(segs, 1, k) : k \in 1..Len(segs)}

Created == (Len(pre) + 1)..Len(loggers)

----------------------------------------------------------------------------
(* C1: after get(p), a second get(p) returns the handle the first one      *)
(* returned, creates no node and leaves the whole tree as it is.           *)
C1_GetTwice ==
    last.op = "get" =>
        LET again == GetLogger(loggers, last.path)
        IN  /\ last.ret # Null
            /\ again.ret = last.ret
            /\ again.loggers = loggers

\* a get of a path of two segments that created its nodes
C1_Witness ==
    /\ last.op = "get"
    /\ Len(Split(last.path)) = 2
    /\ Len(loggers) = Len(pre) + 2
    /\ GetLogger(loggers, last.path).ret = last.ret

(* C2: the loggers form a tree with the single root root_logger: every     *)
(* other node is held by its parent's children map under its segment, its  *)
(* parent pointer points back to that holder, and its name is the parent's *)
(* name, "/" and the segment; the root's name is empty.  get(s1/.../sn)    *)
(* returns the node at the end of the chain s1, s1/s2, ..., leaves a node  *)
(* for every prefix and creates no node off that chain.                    *)
C2_Tree ==
    /\ loggers[Root].parent = Null
    /\ loggers[Root].name = << >>
    /\ \A n \in Nodes \ {Root} :
          LET m == loggers[n].parent
          IN  /\ m \in Nodes /\ m < n
              /\ \E k \in DOMAIN loggers[m].children :
                    /\ loggers[m].children[k] = n
                    /\ loggers[n].name = loggers[m].name \o <<"/">> \o k
    /\ \A m \in Nodes : \A k \in DOMAIN loggers[m].children :
          /\ loggers[m].children[k] \in Nodes \ {Root}
          /\ loggers[loggers[m].children[k]].parent = m
    /\ last.op = "get" =>
          LET segs == Split(last.path)
          IN  /\ \A q \in Prefixes(segs) : NodeAt(loggers, Root, q) \in Nodes
              /\ last.ret = NodeAt(loggers, Root, segs)
              /\ \A n \in Created :
                    \E q \in Prefixes(segs) : n = NodeAt(loggers, Root, q)
              /\ \A n \in 1..Len(pre) : loggers[n].name = pre[n].name

\* a get of a two-segment path created the node of the second segment
\* under a node that was there before
C2_Witness ==
    /\ last.op = "get"
    /\ Len(Split(last.path)) = 2
    /\ Len(loggers) = Len(pre) + 1
    /\ loggers[last.ret].parent # Root
    /\ Len(loggers[last.ret].name) = 3

(* C3: subscribe(X) appends the sink's weak reference to the sinks of X    *)
(* and of every descendant X has at the call, and to no other node; and a  *)
(* record a node emits is handed to every sink that is alive and           *)
(* referenced in the node's sinks.                                         *)
C3_SubscribeReaches ==
    /\ last.op = "subscribe" =>
          \A n \in Nodes :
              loggers[n].sinks =
                  IF n \in Subtree(loggers, last.node)
                  THEN Append(Base(n), last.sink)
                  ELSE Base(n)
    /\ last.op = "publish" =>
          \A s \in Sinks :
              (alive[s] /\ s \in Entries(pre[last.node].sinks))
                  => s \in Entries(last.handled)

(* C4: a sink reference is in a node's sinks only if it was there before   *)
(* the call or the call subscribed that sink to the node or to an ancestor *)
(* of it: a node that get creates starts without sinks, whatever its       *)
(* ancestors hold, and a record is handed only to sinks the emitting node  *)
(* references.                                                             *)
C4_LateChild ==
    /\ \A n \in Nodes : \A w \in Entries(loggers[n].sinks) \cap Sinks :
          \/ w \in Entries(Base(n))
          \/ /\ last.op = "subscribe"
             /\ w = last.sink
             /\ n \in Subtree(loggers, last.node)
    /\ last.op = "get" => \A n \in Created : loggers[n].sinks = << >>
    /\ last.op = "publish" =>
          Entries(last.handled) \subseteq Entries(pre[last.node].sinks)

\* get created a node under a parent that holds a reference to a live sink
C4_Witness ==
    /\ last.op = "get"
    /\ \E n \in Created :
          /\ loggers[n].sinks = << >>
          /\ \E s \in Sinks :
                alive[s] /\ s \in Entries(loggers[loggers[n].parent].sinks)

(* C5: a publish on a node that holds references to destroyed sinks leaves *)
(* exactly the live references in the node, in their order, and calls      *)
(* handle once on every live sink that is referenced once.                 *)
C5_PublishPrunes ==
    (/\ last.op = "publish"
     /\ \E w \in Entries(pre[last.node].sinks) : ~IsLive(w))
        => /\ loggers[last.node].sinks = LiveOnly(pre[last.node].sinks)
           /\ \A s \in Sinks :
                 (alive[s] /\ Count(pre[last.node].sinks, s) = 1)
                     => Count(last.handled, s) = 1

(* C6: unsubscribing S from X, where X and every descendant of X hold a    *)
(* reference to S, leaves in each of them the references to the other      *)
(* sinks, in their order, and nothing else; the other nodes keep their     *)
(* sinks.                                                                  *)
C6_UnsubscribeRemovesAll ==
    (/\ last.op = "unsubscribe"
     /\ \A n \in Subtree(loggers, last.node) : last.sink \in Entries(Base(n)))
        => /\ ~fault
           /\ \A n \in Nodes :
                 loggers[n].sinks =
                     IF n \in Subtree(loggers, last.node)
                     THEN SelectSeq(Base(n), LAMBDA w : w # last.sink)
                     ELSE Base(n)

(* C7: unsubscribing S from X, where neither X nor a descendant of X holds *)
(* a reference to S, completes without fault and leaves every node's sinks *)
(* as they were.                                                           *)
C7_UnsubscribeAbsent ==
    (/\ last.op = "unsubscribe"
     /\ \A n \in Subtree(loggers, last.node) :
           last.sink \notin Entries(Base(n)))
        => /\ ~fault
           /\ \A n \in Nodes : loggers[n].sinks = Base(n)

(* C8: the sinks a publish on node N calls are the live sinks N itself     *)
(* references, in N's order (all of them unless a handle throws): a sink   *)
(* referenced only by an ancestor of N is not called, although N           *)
(* propagates.                                                             *)
C8_OwnSinksOnly ==
    last.op = "publish" =>
        LET own == LiveOnly(pre[last.node].sinks)
        IN  /\ Len(last.handled) <= Len(own)
            /\ last.handled = SubSeq(own, 1, Len(last.handled))
            /\ ~last.threw => last.handled = own

\* a node that propagates has published to its own sink while its parent
\* holds a live sink the node does not reference
C8_Witness ==
    /\ last.op = "publish"
    /\ last.node # Root
    /\ loggers[last.node].propagate
    /\ last.handled # << >>
    /\ \E s \in Sinks :
          /\ alive[s]
          /\ s \in Entries(loggers[loggers[last.node].parent].sinks)
          /\ s \notin Entries(pre[last.node].sinks)
          /\ s \notin Entries(last.handled)

(* C9: whatever a sink's handle writes of a record, the sink's filter      *)
(* chain accepts that record.                                              *)
C9_FilterFirst ==
    last.op = "handle" =>
        \A i \in 1..Len(last.written) :
            FiltererFilter(filters[last.written[i].sink], last.written[i].log)

(* C10: a sink whose external owners are gone is destroyed, however many   *)
(* nodes reference it; no publish calls handle on a destroyed sink; and    *)
(* undefined behaviour or an exception never comes from a reference to a   *)
(* destroyed sink: undefined behaviour is reached only by an unsubscribe   *)
(* that meets a node without a reference to the sink, an exception only    *)
(* by the handle of a live sink rendering a record of empty source.        *)
C10_WeakSubscription ==
    /\ \A s \in Sinks : ~held[s] => ~alive[s]
    /\ last.op = "publish" =>
          \A i \in 1..Len(last.handled) : IsLive(last.handled[i])
    /\ fault =>
          /\ last.op = "unsubscribe"
          /\ \E n \in Subtree(loggers, last.node) :
                last.sink \notin Entries(Base(n))
    /\ last.threw =>
          /\ last.op = "publish"
          /\ SubStr1Throws(last.log)
          /\ last.handled # << >>

\* a publish on a node that referenced a destroyed sink and a live one
C10_Witness ==
    /\ last.op = "publish"
    /\ last.handled # << >>
    /\ \E s \in Sinks :
          /\ ~held[s] /\ ~alive[s]
          /\ s \in Entries(pre[last.node].sinks)
          /\ s \notin Entries(loggers[last.node].sinks)

(* C11: get never fails.  The get just made returned a node of the tree,   *)
(* and from every reachable tree a get of any path string, the empty one   *)
(* and those with leading, trailing or consecutive separators included,    *)
(* returns a non-null node of the resulting tree, which holds a node for   *)
(* every segment of the path, the empty segments too.                      *)
C11_GetNeverFails ==
    /\ last.op = "get" => last.ret # Null /\ last.ret \in Nodes
    /\ \A p \in Paths :
          LET r == GetLogger(loggers, p)
              segs == Split(p)
          IN  /\ r.ret # Null
              /\ r.ret \in 1..Len(r.loggers)
              /\ r.ret = NodeAt(r.loggers, Root, segs)
              /\ \A q \in Prefixes(segs) :
                    NodeAt(r.loggers, Root, q) \in 1..Len(r.loggers)
              /\ Len(r.loggers) >= Len(loggers)

\* get("/") created the node of the empty first segment and under it the
\* node of the empty second segment, and returned the latter
C11_Witness ==
    /\ last.op = "get"
    /\ last.path = <<"/">>
    /\ Len(loggers) = Len(pre) + 2
    /\ last.ret = Len(loggers)
    /\ loggers[last.ret].name = <<"/", "/">>
    /\ loggers[loggers[last.ret].parent].name = <<"/">>

(* C12: a subscribe adds one more entry for the sink to the node, beside   *)
(* those the node already holds for it, and a publish on a node that holds *)
(* k >= 2 entries for a live sink calls that sink's handle k times.        *)
C12_DuplicateDelivery ==
    /\ last.op = "subscribe" =>
          Count(loggers[last.node].sinks, last.sink)
              = Count(Base(last.node), last.sink) + 1
    /\ last.op = "publish" =>
          \A s \in Sinks :
              (alive[s] /\ Count(pre[last.node].sinks, s) >= 2)
                  => Count(last.handled, s) = Count(pre[last.node].sinks, s)

(* C13: a logging call returns normally whatever happens in the sinks: no  *)
(* exception raised inside a sink's handle leaves the publish.             *)
C13_PublishReturns ==
    last.op = "publish" => ~last.threw

(* C14: Filterer::filter(record) completes and returns true exactly when   *)
(* every filter in the chain accepts the record; on a chain without        *)
(* filters it returns true for every record.                               *)
C14_FilterIsConjunction ==
    last.op = "filter" =>
        /\ ~fault
        /\ last.accepted <=>
              \A f \in Entries(last.chain) \cap Filters :
                  FilterAccepts(f, last.log)
        /\ Entries(last.chain) \cap Filters = {} => last.accepted

(* C15: add_filter(f) appends f at the end of the chain; remove_filter(f)  *)
(* on a chain of filters that holds f, once or more than once, completes   *)
(* and leaves the other filters, in their order, and no f.                 *)
C15_RemoveFilter ==
    /\ last.op = "add_filter" =>
          filters[last.sink] = Append(last.chain, last.filter)
    /\ (/\ last.op = "remove_filter"
        /\ Entries(last.chain) \subseteq Filters
        /\ last.filter \in Entries(last.chain))
          => /\ ~fault
             /\ last.filter \notin Entries(filters[last.sink])
             /\ filters[last.sink]
                    = SelectSeq(last.chain, LAMBDA g : g # last.filter)

(* C16: nodes are never removed.  Whatever the last call was (get,         *)
(* subscribe, unsubscribe, publish, release of a sink), every node that    *)
(* existed before it still exists with the same parent and the same name,  *)
(* its parent still holds it under the same segment, and every path that   *)
(* led to a node before the call leads to the same node after it: a get of *)
(* that path now returns the handle a get returned before.                 *)
C16_NodesStay ==
    /\ Len(loggers) >= Len(pre)
    /\ \A n \in 1..Len(pre) :
          /\ loggers[n].parent = pre[n].parent
          /\ loggers[n].name = pre[n].name
          /\ \A k \in DOMAIN pre[n].children :
                /\ k \in DOMAIN loggers[n].children
                /\ loggers[n].children[k] = pre[n].children[k]
    /\ \A p \in Paths :
          LET h == NodeAt(pre, Root, Split(p))
          IN  h # Null =>
                  /\ NodeAt(loggers, Root, Split(p)) = h
                  /\ GetLogger(loggers, p).ret = h
                  /\ GetLogger(loggers, p).loggers = loggers

\* a get created a second child of the root, beside an older one that a
\* get of its path still returns, after a sink had been destroyed
C16_Witness ==
    /\ last.op = "get"
    /\ Len(pre) = 2 /\ Len(loggers) = 3
    /\ loggers[2].parent = Root /\ loggers[3].parent = Root
    /\ last.ret = 3
    /\ \E p \in Paths : p # last.path /\ GetLogger(loggers, p).ret = 2
    /\ \E s \in Sinks : ~alive[s]

\* the path has no empty segment
NoEmptySegment(p) == \A i \in 1..Len(Split(p)) : Split(p)[i] # << >>

(* C17: a record emitted by the logger that get(p) returns, p without an   *)
(* empty segment, has the source "/" followed by p, and the line PrintSink *)
(* and FileSink write for it is complete and shows p as the source.        *)
C17_SourceIsPath ==
    last.op = "publish" =>
        \A p \in TextPaths :
            (NoEmptySegment(p) /\ GetLogger(loggers, p).ret = last.node
             /\ GetLogger(loggers, p).loggers = loggers)
                => /\ last.log.source = <<"/">> \o p
                   /\ ~last.threw
                   /\ \A i \in 1..Len(last.written) :
                         SinkKind(last.written[i].sink)
                                 \in {"PrintSink", "FileSink"}
                             => /\ last.written[i].complete
                                /\ last.written[i].shown = p

\* the logger of get("a/a") emitted a record that a PrintSink and a
\* FileSink wrote with the source "a/a"
C17_Witness ==
    /\ last.op = "publish"
    /\ GetLogger(loggers, <<"a", "/", "a">>).ret = last.node
    /\ last.log.source = <<"/", "a", "/", "a">>
    /\ \E i, j \in 1..Len(last.written) :
          /\ SinkKind(last.written[i].sink) = "PrintSink"
          /\ SinkKind(last.written[j].sink) = "FileSink"
          /\ last.written[i].shown = <<"a", "/", "a">>
          /\ last.written[j].shown = <<"a", "/", "a">>

\* the sequence v without the elements at the positions in D
Without(v, D) ==
    LET kept == SelectSeq([i \in 1..Len(v) |-> i], LAMBDA i : i \notin D)
    IN  [j \in 1..Len(kept) |-> v[kept[j]]]

DeadAt(v) == {i \in 1..Len(v) : ~IsLive(v[i])}

(* C18: a publish on node N leaves every other node as it was (its sinks   *)
(* and its children too) and leaves N's parent, name and children as they  *)
(* were; N's sinks afterwards are its sinks before with some dead entries  *)
(* taken out, so that the live entries are all there in their order.       *)
C18_PublishFrame ==
    last.op = "publish" =>
        LET N == last.node
        IN  /\ Len(loggers) = Len(pre)
            /\ \A n \in Nodes \ {N} : loggers[n] = pre[n]
            /\ [loggers[N] EXCEPT !.sinks = pre[N].sinks] = pre[N]
            /\ \E D \in SUBSET DeadAt(pre[N].sinks) :
                  loggers[N].sinks = Without(pre[N].sinks, D)
            /\ LiveOnly(loggers[N].sinks) = LiveOnly(pre[N].sinks)

\* a publish pruned a dead entry from a node and kept the live one, while
\* another node still holds its entry for the destroyed sink
C18_Witness ==
    /\ last.op = "publish"
    /\ Len(loggers[last.node].sinks) < Len(pre[last.node].sinks)
    /\ LiveOnly(loggers[last.node].sinks) # << >>
    /\ last.handled # << >>
    /\ \E m \in Nodes \ {last.node} :
          \E w \in Entries(loggers[m].sinks) : ~IsLive(w)

\* u is v with some of its elements taken out
IsSubSeq(u, v) == \E D \in SUBSET (1..Len(v)) : u = Without(v, D)

(* C19: a publish calls the live sinks in the order of the node's sinks; a *)
(* subscribe puts the new reference behind the ones the node holds; and    *)
(* after a publish that pruned, or an unsubscribe, the live references a   *)
(* node still holds stand in the order they stood in before.               *)
C19_InsertionOrder ==
    /\ last.op = "publish" =>
          IsSubSeq(last.handled, LiveOnly(pre[last.node].sinks))
    /\ last.op = "subscribe" =>
          \A n \in Subtree(loggers, last.node) :
              LiveOnly(loggers[n].sinks)
                  = Append(LiveOnly(Base(n)), last.sink)
    /\ last.op \in {"publish", "unsubscribe"} =>
          \A n \in Nodes :
              IsSubSeq(LiveOnly(loggers[n].sinks), LiveOnly(Base(n)))

(* C20: while a sink's handle runs, the sink exists, whatever owners the   *)
(* handle bodies have released; a sink without an external owner exists    *)
(* only while its own handle runs, so it is destroyed when that handle has *)
(* returned; and once a handle body has released the last owner of a sink, *)
(* no handle of that sink is entered any more in this publish, and when    *)
(* the publish has run to its end the node holds no reference to that sink *)
(* behind the position the release was made at: the later sink is pruned.  *)
C20_OwnedWhileHandled ==
    /\ run.sink_ptr # Null => alive[run.sink_ptr]
    /\ \A s \in Sinks :
          (alive[s] /\ ~held[s]) => (run.active /\ run.sink_ptr = s)
    /\ \A e \in run.events :
          /\ \A k \in (e.calls + 1)..Len(run.handled) :
                run.handled[k] # e.sink
          /\ (~run.active /\ ~run.threw) =>
                \A i \in (e.pos + 1)..Len(loggers[run.node].sinks) :
                    loggers[run.node].sinks[i] # e.sink

\* the handle of the first sink of a node released its own sink's last
\* owner and the last owner of the sink behind it; its handle is still
\* running on a sink that exists
C20_Witness ==
    /\ run.active
    /\ run.sink_ptr # Null
    /\ run.iter = 1
    /\ ~held[run.sink_ptr] /\ alive[run.sink_ptr]
    /\ \E s \in Sinks \ {run.sink_ptr} :
          /\ ~held[s] /\ ~alive[s]
          /\ loggers[run.node].sinks = <<run.sink_ptr, s>>
          /\ \E e \in run.events : e.sink = s /\ e.pos = 1

\* that publish has run to its end: the first sink was destroyed when its
\* handle returned, the second was pruned and never called
C20_Pruned ==
    /\ ~run.active /\ ~run.threw
    /\ Len(run.handled) = 1
    /\ Len(pre[run.node].sinks) = 2
    /\ loggers[run.node].sinks = <<run.handled[1]>>
    /\ \A s \in Entries(pre[run.node].sinks) : ~alive[s]
    /\ \E e1, e2 \in run.events :
          /\ e1.sink = run.handled[1]
          /\ e2.sink = pre[run.node].sinks[2]
          /\ e2.sink # e1.sink

====
